---- MODULE Spec2Model ----
(***************************************************************************)
(* chaostomato: the session store (State), the session state machine       *)
(* (Session) and the expiration scheduler (poll_for_expired_entries).      *)
(*                                                                         *)
(* The store is two separately locked containers: `entries`                *)
(* (HashMap<CacheKey, (Session, delay_queue::Key)>) and `expirations`      *)
(* (DelayQueue<CacheKey>, a slab of deadlines addressed by handle).  Every *)
(* handler is a sequence of steps, one per critical section or awaited     *)
(* notifier call, so that handlers and the scheduler interleave exactly    *)
(* where the code releases its locks.                                      *)
(*                                                                         *)
(* Time is counted in minutes.  An Instant is kept as its distance from    *)
(* the current instant, 0 standing for "now or earlier": the code only     *)
(* ever compares an Instant with the current instant.                      *)
(***************************************************************************)
EXTENDS Integers, Sequences, FiniteSets, TLC

(* ---------------------------- bounds ----------------------------------- *)
MaxProcs == 2
MaxUid == 2
MaxName == 2
MaxPrivate == 1
MaxMsg == 3
MaxSessions == 1
MaxCalls == 2
ManySessions == 2
ManyCalls == 3
MaxStart == 1
MaxDuration == 1
TickStep == 5
PairTicks == 1

(* ----------------------- program constants ----------------------------- *)
WorkDuration == 25
BreakDuration == 5

(* ----------------------------- domains --------------------------------- *)
Procs == 1..MaxProcs

\* types::User: compared as a whole (derived Eq/Hash) or by its id field.  `name`
\* is the profile an update carries for the account: profile NoUsername has
\* username None (where the code shows a name it falls back to first_name),
\* every other profile has a username.
Users == [id : 1..MaxUid, name : 1..MaxName]

NoUsername == 2

HasUsername(user) == user.name # NoUsername

\* Chat 0 is a group; chat c > 0 is the private chat of the user with id c.
ChatIds == 0..MaxPrivate

Kind(chat) == IF chat = 0 THEN "Group" ELSE "Private"

None == -1

Free == -1

Sched == 0

NewKey(chat_id, message_id) == <<chat_id, message_id>>

KeyOf(message) == NewKey(message.chat, message.id)

NoUser == [id |-> 0, name |-> 0]

NoMessage == [chat |-> 0, id |-> 0]

NoKey == <<0, 0>>

NoSession ==
    [state |-> "None", message |-> NoMessage, creator |-> NoUser, participants |-> {},
     start_time |-> 0, duration |-> 0]

Vacant == [occ |-> FALSE, key |-> NoKey, deadline |-> 0]

IdleH ==
    [pc |-> "idle", op |-> "-", user |-> NoUser, chat |-> 0, key |-> NoKey,
     sess |-> NoSession, dk |-> 0, msg |-> NoMessage, ret |-> "-"]

IdleS == [pc |-> "poll", key |-> NoKey, sess |-> NoSession, dk |-> 0]

\* Who was called with what, what came back, what was asked of the notifier.
Event(op, res, user, chat, key, notes) ==
    [op |-> op, res |-> res, user |-> user, chat |-> chat, key |-> key, notes |-> notes]

NoEvent == Event("-", "-", NoUser, 0, NoKey, {})

\* The locals of a handler invoked as op(user, chat, key).
Locals(op, user, chat, key) ==
    [IdleH EXCEPT !.op = op, !.user = user, !.chat = chat, !.key = key]

Put(f, k, v) == [x \in (DOMAIN f) \cup {k} |-> IF x = k THEN v ELSE f[x]]

Drop(f, k) == [x \in (DOMAIN f) \ {k} |-> f[x]]

Note(what, chat, msg, ok) == [what |-> what, chat |-> chat, msg |-> msg, ok |-> ok]

(* ------------------- time::instant_at_minute --------------------------- *)
\* The distance from now to the next minute that is a multiple of 5, given the
\* wall clock's minute.
InstantAtMinute(m) == 5 - (m % 5)

(* ------------------------- Session ------------------------------------- *)
SessionNewPomodoro(message, creator, start_time, duration, m) ==
    [state |-> "PomodoroWaiting", message |-> message, creator |-> creator,
     participants |-> {creator},
     start_time |-> IF start_time # None THEN start_time
                    ELSE IF Kind(message.chat) = "Private" THEN 0
                    ELSE InstantAtMinute(m),
     duration |-> IF duration # None THEN duration ELSE WorkDuration]

\* A new_break that starts at once whatever start time it is given.
SessionNewBreakNow(message, creator, start_time, duration) ==
    [state |-> "BreakWaiting", message |-> message, creator |-> creator,
     participants |-> {creator},
     start_time |-> 0,
     duration |-> IF duration # None THEN duration ELSE BreakDuration]

SessionNewBreak(message, creator, start_time, duration) ==
    [state |-> "BreakWaiting", message |-> message, creator |-> creator,
     participants |-> {creator},
     start_time |-> IF start_time # None THEN start_time ELSE 0,
     duration |-> IF duration # None THEN duration ELSE BreakDuration]

\* A convert_to_break that forgets the break length.
ConvertKeepingDuration(s) == [s EXCEPT !.state = "BreakRunning"]

ConvertToBreak(s) == [s EXCEPT !.duration = BreakDuration, !.state = "BreakRunning"]

IsRunning(s) == s.state = "PomodoroRunning"

IsTakingABreak(s) == s.state = "BreakRunning"

IsWaiting(s) == s.state = "PomodoroWaiting"

IsAwaitingBreak(s) == s.state = "BreakWaiting"

(* --------------- DelayQueue<CacheKey> (slab of deadlines) -------------- *)
\* q = [slab, free]: slab is the sequence of slots, free the stack of vacated
\* handles (the slab hands out the most recently vacated handle first).
EmptyQueue == [slab |-> <<>>, free |-> <<>>]

QNextKey(q) == IF q.free = <<>> THEN Len(q.slab) + 1 ELSE Head(q.free)

QInsertAt(q, key, deadline) ==
    LET dk == QNextKey(q)
        e == [occ |-> TRUE, key |-> key, deadline |-> deadline]
    IN  [slab |-> IF dk = Len(q.slab) + 1 THEN Append(q.slab, e)
                  ELSE [q.slab EXCEPT ![dk] = e],
         free |-> IF q.free = <<>> THEN <<>> ELSE Tail(q.free)]

\* An insert that arms the deadline at the present instant.
QInsertNow(q, key, duration) == QInsertAt(q, key, 0)

\* insert(value, timeout) is insert_at(value, now + timeout).
QInsert(q, key, duration) == QInsertAt(q, key, duration)

\* remove(&key) panics when the handle addresses no pending deadline.
QValid(q, dk) == dk \in 1..Len(q.slab) /\ q.slab[dk].occ

\* A remove that leaves the deadline pending.
QRemoveNothing(q, dk) == q

QRemove(q, dk) == [slab |-> [q.slab EXCEPT ![dk] = Vacant], free |-> <<dk>> \o q.free]

\* Handles whose deadline has been reached: what poll_expired may yield.
QDue(q) == {dk \in 1..Len(q.slab) : q.slab[dk].occ /\ q.slab[dk].deadline = 0}

\* The passing of d minutes, seen from an Instant.
Earlier(instant, d) == IF instant > d THEN instant - d ELSE 0

SessionLater(s, d) == [s EXCEPT !.start_time = Earlier(@, d)]

QLater(q, d) ==
    [q EXCEPT !.slab = [i \in DOMAIN q.slab |->
                          [q.slab[i] EXCEPT !.deadline = Earlier(@, d)]]]

QPending(q) == {dk \in 1..Len(q.slab) : q.slab[dk].occ}

QKeys(q) == {q.slab[dk].key : dk \in QPending(q)}

QHandlesOf(q, key) == {dk \in QPending(q) : q.slab[dk].key = key}

(* ----------------------------- state ----------------------------------- *)
VARIABLES
    world,        \* the run's scenario: who takes part and how tasks are scheduled
    calls,        \* handler invocations so far (counted in worlds that bound them)
    elapsed,      \* clock steps so far (counted in worlds that bound them)
    minute,       \* the wall clock's minute (its residue modulo 5)
    nextMsg,      \* per chat: the id the next sent message gets
    entries,      \* State.entries: CacheKey -> [session, dk]
    expirations,  \* State.expirations
    lockE,        \* holder of the entries mutex across steps (Free when none)
    lockX,        \* holder of the expirations mutex across steps
    poisonE,      \* the entries mutex is poisoned (a holder panicked)
    poisonX,      \* the expirations mutex is poisoned
    hs,           \* per handler task: its position and locals
    sched,        \* the scheduler task: its position and locals
    ev            \* what the last step returned and asked of the notifier

vars == <<world, calls, elapsed, minute, nextMsg, entries, expirations, lockE, lockX, poisonE, poisonX,
          hs, sched, ev>>

store == <<entries, expirations>>

locks == <<lockE, lockX, poisonE, poisonX>>

InitTasks ==
    /\ calls = 0
    /\ elapsed = 0
    /\ minute = 0
    /\ lockE = Free
    /\ lockX = Free
    /\ poisonE = FALSE
    /\ poisonX = FALSE
    /\ hs = [p \in Procs |-> IdleH]
    /\ sched = IdleS
    /\ ev = NoEvent

\* A world: mode "seq" runs every operation to completion before the next one
\* starts, "conc" interleaves the tasks; procs handler tasks serve the commands
\* of the users with names up to `names` in the chats `chats`; at most
\* `sessions` sessions are alive at a time, and at most `calls` handler
\* invocations are made (None: any number).  `start` and `duration` are the
\* arguments of a State::new_break that is applied on its own (see InitBreak);
\* the handlers of /25 and /5 always pass None, None.
World(mode, procs, sessions, names, chats, maxcalls) ==
    [mode |-> mode, procs |-> procs, sessions |-> sessions, names |-> names,
     chats |-> chats, calls |-> maxcalls, start |-> None, duration |-> None,
     ticks |-> None]

\* The world w in which State::new_break is given start_time and duration.
Given(w, start_time, duration) == [w EXCEPT !.start = start_time, !.duration = duration]

\* The world w watched for `ticks` steps of the clock.
Lasting(w, ticks) == [w EXCEPT !.ticks = ticks]

\* Users that can send commands in a chat.
UsersOf(chat) ==
    {u \in Users : u.name <= world.names /\ (Kind(chat) = "Private" => u.id = chat)}

\* State::default(): nothing registered, nothing sent.
InitEmpty ==
    /\ nextMsg = [c \in ChatIds |-> 1]
    /\ entries = << >>
    /\ expirations = EmptyQueue

\* The store right after one registration in the group (message 1 by user 1),
\* possibly followed by the join of user 2: the states SpecSeq reaches by
\* new_pomodoro or new_break and join_latest_session from InitEmpty.
Registered ==
    LET m == [chat |-> 0, id |-> 1]
        u == [id |-> 1, name |-> 1]
        v == [id |-> 2, name |-> 1]
        w == SessionNewPomodoro(m, u, None, None, 0)
    IN  {w, [w EXCEPT !.participants = {u, v}], SessionNewBreak(m, u, None, None)}

InitRegistered ==
    \E s \in Registered :
        /\ nextMsg = [c \in ChatIds |-> IF c = 0 THEN 2 ELSE 1]
        /\ entries = Put(<< >>, KeyOf(s.message), [session |-> s, dk |-> 1])
        /\ expirations = QInsertAt(EmptyQueue, KeyOf(s.message), s.start_time)

\* The concurrent world: two handler invocations and the scheduler race on an
\* empty store or on a store with one registered session.
Init ==
    /\ world = World("conc", MaxProcs, MaxSessions, 1, {0}, MaxCalls)
    /\ InitTasks
    /\ InitEmpty \/ InitRegistered

\* The sequential world: any number of operations, one at a time.
InitSeq ==
    /\ world \in {World("seq", 1, MaxSessions, MaxName, {c}, None) : c \in ChatIds}
    /\ InitTasks
    /\ InitEmpty

\* Several sessions side by side: a few operations, one at a time, in the group
\* and in the private chat, with up to ManySessions sessions alive.
InitMany ==
    /\ world = World("seq", 1, ManySessions, 1, ChatIds, ManyCalls)
    /\ InitTasks
    /\ InitEmpty

\* State::new_break applied on its own: the arguments are drawn here, the
\* message is the chat's first, start_time is None or Some(up to MaxStart
\* minutes ahead), duration is None or Some(up to MaxDuration minutes); task 1
\* is about to make the call, and the scheduler runs.
InitBreak ==
    /\ world \in {Given(World("seq", 1, MaxSessions, 1, {c}, None), st, du) :
                   c \in ChatIds, st \in {None} \cup 0..MaxStart,
                   du \in {None} \cup 0..MaxDuration}
    /\ calls = 0
    /\ elapsed = 0
    /\ minute = 0
    /\ lockE = Free
    /\ lockX = Free
    /\ poisonE = FALSE
    /\ poisonX = FALSE
    /\ \E c \in world.chats : \E u \in UsersOf(c) :
          /\ hs = [p \in Procs |->
                     IF p = 1
                     THEN [IdleH EXCEPT !.pc = "reg_call", !.op = "new_break", !.user = u,
                                        !.chat = c, !.msg = [chat |-> c, id |-> 1]]
                     ELSE IdleH]
          /\ nextMsg = [x \in ChatIds |-> IF x = c THEN 2 ELSE 1]
    /\ sched = IdleS
    /\ ev = NoEvent
    /\ entries = << >>
    /\ expirations = EmptyQueue

\* One handler task and the scheduler race on an empty store or on a store
\* with one registered session.
InitFair ==
    /\ world = World("conc", 1, MaxSessions, 1, {0}, MaxCalls)
    /\ InitTasks
    /\ InitEmpty \/ InitRegistered

\* The store after two registrations in the group within one five-minute
\* window: message 1 by user 1 and message 2 by user 2, both waiting.
InitPairRegistered ==
    LET m1 == [chat |-> 0, id |-> 1]
        m2 == [chat |-> 0, id |-> 2]
        s1 == SessionNewPomodoro(m1, [id |-> 1, name |-> 1], None, None, 0)
        s2 == SessionNewPomodoro(m2, [id |-> 2, name |-> 1], None, None, 0)
    IN  /\ nextMsg = [c \in ChatIds |-> IF c = 0 THEN 3 ELSE 1]
        /\ entries = Put(Put(<< >>, KeyOf(m1), [session |-> s1, dk |-> 1]),
                         KeyOf(m2), [session |-> s2, dk |-> 2])
        /\ expirations = QInsertAt(QInsertAt(EmptyQueue, KeyOf(m1), s1.start_time),
                                   KeyOf(m2), s2.start_time)

\* Two handler invocations and the scheduler race on a store with two sessions.
InitPair ==
    /\ world = Lasting(World("conc", MaxProcs, ManySessions, 1, {0}, MaxCalls), PairTicks)
    /\ InitTasks
    /\ InitPairRegistered

\* The store right after new_pomodoro(message 1, user 1) in the group.
InitWaiting ==
    LET s == SessionNewPomodoro([chat |-> 0, id |-> 1], [id |-> 1, name |-> 1], None, None, 0)
    IN  /\ nextMsg = [c \in ChatIds |-> IF c = 0 THEN 2 ELSE 1]
        /\ entries = Put(<< >>, KeyOf(s.message), [session |-> s, dk |-> 1])
        /\ expirations = QInsertAt(EmptyQueue, KeyOf(s.message), s.start_time)

\* One handler task and the scheduler race on a waiting work session, watched
\* until its start deadline has come.
InitRace ==
    /\ world = Lasting(World("conc", 1, MaxSessions, 1, {0}, MaxCalls), PairTicks)
    /\ InitTasks
    /\ InitWaiting

\* Two handler invocations and the scheduler race on a waiting work session,
\* with room for a second session, watched until its start deadline has come.
InitTwo ==
    /\ world = Lasting(World("conc", MaxProcs, ManySessions, 1, {0}, MaxCalls), PairTicks)
    /\ InitTasks
    /\ InitWaiting

(* ------------------------- scheduling guards --------------------------- *)
SchedBusy == sched.pc \notin {"poll", "dead"}

\* In "seq" mode a task may move only when every other task is at rest.
MayRun(p) ==
    /\ p <= world.procs
    /\ world.mode = "seq" =>
          /\ \A q \in Procs \ {p} : hs[q].pc = "idle"
          /\ (p # Sched => ~SchedBusy)

\* A handler invocation begins.
Call ==
    /\ world.calls # None => calls < world.calls
    /\ calls' = IF world.calls = None THEN calls ELSE calls + 1

Quiet == (\A p \in Procs : hs[p].pc = "idle") /\ ~SchedBusy

\* The handler with locals h returns res.
Return(p, h, res, notes) ==
    /\ hs' = [hs EXCEPT ![p] = IdleH]
    /\ ev' = Event(h.op, res, h.user, h.chat, h.key, notes)

\* A step that asks something of the notifier without returning.
Notified(h, what, notes) == Event(what, "-", h.user, h.chat, h.key, notes)

Goto(p, h) ==
    /\ hs' = [hs EXCEPT ![p] = h]
    /\ ev' = NoEvent

(* ------------------------------ clock ---------------------------------- *)
\* TickStep minutes pass: every Instant held anywhere comes that much closer.
Tick ==
    /\ world.mode = "seq" => Quiet
    /\ world.ticks # None => elapsed < world.ticks
    /\ elapsed' = IF world.ticks = None THEN elapsed ELSE elapsed + 1
    /\ minute' = (minute + TickStep) % 5
    /\ entries' = [k \in DOMAIN entries |->
                     [entries[k] EXCEPT !.session = SessionLater(@, TickStep)]]
    /\ expirations' = QLater(expirations, TickStep)
    /\ hs' = [p \in Procs |-> [hs[p] EXCEPT !.sess = SessionLater(@, TickStep)]]
    /\ sched' = [sched EXCEPT !.sess = SessionLater(@, TickStep)]
    /\ ev' = NoEvent
    /\ UNCHANGED <<world, calls, nextMsg, locks>>

(* ----------------------- private helpers of State --------------------- *)
\* session_exists: Ok iff the entries mutex is sound and holds the key.
SessionExists(key) == ~poisonE /\ key \in DOMAIN entries

\* Sessions the store or a task currently holds (bounds the registrations).
InFlight == {p \in Procs : hs[p].sess # NoSession}

\* Handlers whose message is sent and whose registration is still to come.
Announced == {p \in Procs : hs[p].pc = "reg_call"}

LiveCount ==
    Cardinality(DOMAIN entries) + Cardinality(InFlight) + Cardinality(Announced)
        + (IF sched.sess # NoSession THEN 1 ELSE 0)

\* Ids of the messages sent to the chat so far.
SentIds(chat) == 1..(nextMsg[chat] - 1)

(* ------------------------------ notifier ------------------------------- *)
\* A send succeeds (the chat gets a new message) or fails; a delete succeeds or
\* fails.  No message beyond MaxMsg is sent: such a send can only fail.
SendOutcomes(chat) == IF nextMsg[chat] <= MaxMsg THEN {TRUE, FALSE} ELSE {FALSE}

SentMessage(chat, ok, old) == IF ok THEN [chat |-> chat, id |-> nextMsg[chat]] ELSE old

AfterSend(chat, ok) == IF ok THEN [nextMsg EXCEPT ![chat] = @ + 1] ELSE nextMsg

(* ------------- util::create_pomodoro / util::_5_minute_break ----------- *)
\* The handler of /25 or /5 up to its awaited send_message: Telegram gives the
\* message its id; the handler whose send failed is done.
SendAnnouncement(p, op, chat, user, sendOk) ==
    /\ hs[p].pc = "idle"
    /\ MayRun(p)
    /\ Call
    /\ LiveCount < world.sessions
    /\ nextMsg' = AfterSend(chat, sendOk)
    /\ hs' = [hs EXCEPT ![p] =
                IF sendOk
                THEN [Locals(op, user, chat, NoKey)
                        EXCEPT !.pc = "reg_call",
                               !.msg = SentMessage(chat, TRUE, NoMessage)]
                ELSE IdleH]
    /\ ev' = Event("send_message", "-", user, chat, NoKey,
                   {Note("send", chat, SentMessage(chat, sendOk, NoMessage).id, sendOk)})
    /\ UNCHANGED <<world, elapsed, minute, store, locks, sched>>

\* The handler panics before it has sent or locked anything: its task ends.
Panicked(p, op, chat, user) ==
    /\ hs[p].pc = "idle"
    /\ MayRun(p)
    /\ Call
    /\ Return(p, Locals(op, user, chat, NoKey), "Panic", {})
    /\ UNCHANGED <<world, elapsed, minute, nextMsg, store, locks, sched>>

\* create_pomodoro: in a group the text names the creator by
\* from_user.username.unwrap(), which panics for a user without a username; the
\* text of a private chat does not name the user.
CreatePomodoro(p) ==
    \E chat \in world.chats : \E user \in UsersOf(chat) :
        IF Kind(chat) = "Group" /\ ~HasUsername(user)
        THEN Panicked(p, "new_pomodoro", chat, user)
        ELSE \E sendOk \in SendOutcomes(chat) :
                SendAnnouncement(p, "new_pomodoro", chat, user, sendOk)

FiveMinuteBreak(p) ==
    \E chat \in world.chats : \E user \in UsersOf(chat) : \E sendOk \in SendOutcomes(chat) :
        SendAnnouncement(p, "new_break", chat, user, sendOk)

\* A handler that only sends one message to the chat, whoever asked for it.
SendOnly(p, op, chat, sendOk) ==
    /\ hs[p].pc = "idle"
    /\ MayRun(p)
    /\ Call
    /\ nextMsg' = AfterSend(chat, sendOk)
    /\ ev' = Event(op, "-", NoUser, chat, NoKey,
                   {Note("send", chat, SentMessage(chat, sendOk, NoMessage).id, sendOk)})
    /\ UNCHANGED <<world, elapsed, minute, store, locks, hs, sched>>

\* command::start for a message that is no reply: the menu is sent.
Start(p) ==
    \E chat \in world.chats : \E sendOk \in SendOutcomes(chat) :
        SendOnly(p, "start", chat, sendOk)

\* command::help and the menu's help button: util::send_help_text.
SendHelpText(p) ==
    \E chat \in world.chats : \E sendOk \in SendOutcomes(chat) :
        SendOnly(p, "help", chat, sendOk)

\* The handler after the State function of h returned Ok: create_pomodoro goes
\* on to update_participants_text for its message in a group, any other
\* handler is done.
UpdateParticipantsText(h, message, res) ==
    [Locals(h.op, h.user, h.chat, h.key) EXCEPT !.pc = "up_read", !.msg = message, !.ret = res]

AfterRegistration(h) ==
    IF h.op = "new_pomodoro" /\ Kind(h.chat) = "Group"
    THEN UpdateParticipantsText(h, h.msg, "-")
    ELSE IdleH

\* The State function of h returns res to its handler, which goes on as h2.
ReturnTo(p, h, res, h2) ==
    /\ hs' = [hs EXCEPT ![p] = h2]
    /\ ev' = Event(h.op, res, h.user, h.chat, h.key, {})

(* --------------- State::new_pomodoro / State::new_break ---------------- *)
\* State::new_pomodoro(message, creator, start_time, duration) or
\* State::new_break(..), called with the message the task has sent: the check
\* for an occupied key, then the construction of the session.
Register(p, op, start_time, duration) ==
    LET c == hs[p]
        key == KeyOf(c.msg)
        h == [Locals(op, c.user, c.chat, key) EXCEPT !.msg = c.msg]
        s == IF op = "new_pomodoro"
             THEN SessionNewPomodoro(c.msg, c.user, start_time, duration, minute)
             ELSE SessionNewBreak(c.msg, c.user, start_time, duration)
    IN  /\ hs[p].pc = "reg_call"
        /\ hs[p].op = op
        /\ MayRun(p)
        /\ lockE = Free
        /\ IF SessionExists(key)
           THEN Return(p, h, "AlreadyExists", {})
           ELSE Goto(p, [h EXCEPT !.pc = "reg_queue", !.sess = s])
        /\ UNCHANGED <<world, calls, elapsed, minute, nextMsg, store, locks, sched>>

\* create_pomodoro: state.new_pomodoro(message, from_user, None, None)
NewPomodoro(p) == \E arg \in {None} : Register(p, "new_pomodoro", arg, arg)

\* _5_minute_break: state.new_break(message, user, None, None)
NewBreak(p) == \E arg \in {None} : Register(p, "new_break", arg, arg)

\* State::new_break(message, creator, start_time, duration) with the arguments
\* of the world.
NewBreakGiven(p) ==
    \E st \in {world.start} : \E du \in {world.duration} : Register(p, "new_break", st, du)

\* add_session_to_queue, first critical section: expirations.insert_at.
AddSessionToQueueX(p) ==
    /\ hs[p].pc = "reg_queue"
    /\ MayRun(p)
    /\ lockX = Free
    /\ IF poisonX
       THEN /\ ReturnTo(p, hs[p], "Ok", AfterRegistration(hs[p]))
            /\ UNCHANGED expirations
       ELSE /\ expirations' = QInsertAt(expirations, hs[p].key, hs[p].sess.start_time)
            /\ Goto(p, [hs[p] EXCEPT !.pc = "reg_map", !.dk = QNextKey(expirations)])
    /\ UNCHANGED <<world, calls, elapsed, minute, nextMsg, entries, locks, sched>>

\* add_session_to_queue, second critical section: entries.insert.
AddSessionToQueueE(p) ==
    /\ hs[p].pc = "reg_map"
    /\ MayRun(p)
    /\ lockE = Free
    /\ IF poisonE
       THEN UNCHANGED entries
       ELSE entries' = Put(entries, hs[p].key, [session |-> hs[p].sess, dk |-> hs[p].dk])
    /\ ReturnTo(p, hs[p], "Ok", AfterRegistration(hs[p]))
    /\ UNCHANGED <<world, calls, elapsed, minute, nextMsg, expirations, locks, sched>>

(* ------------------------- Session's notifications --------------------- *)
\* A start notification that keeps the old anchor message.
NotifyOnStartKeepingAnchor(s, sendOk, delOk) ==
    [sess |-> s,
     notes |-> {Note("delete", s.message.chat, s.message.id, delOk),
                Note("started", s.message.chat,
                     SentMessage(s.message.chat, sendOk, NoMessage).id, sendOk)}]

\* A start notification whose failed send loses the session.
NotifyOnStartOrLose(s, sendOk, delOk) ==
    [sess |-> IF sendOk THEN [s EXCEPT !.message = SentMessage(s.message.chat, sendOk, s.message)]
              ELSE NoSession,
     notes |-> {Note("delete", s.message.chat, s.message.id, delOk),
                Note("started", s.message.chat,
                     SentMessage(s.message.chat, sendOk, NoMessage).id, sendOk)}]

\* Session::notify_participants_on_start: delete the anchor, send "Session has
\* started!", keep the new message as the anchor when the send succeeded.
NotifyOnStart(s, sendOk, delOk) ==
    [sess |-> [s EXCEPT !.message = SentMessage(s.message.chat, sendOk, s.message)],
     notes |-> {Note("delete", s.message.chat, s.message.id, delOk),
                Note("started", s.message.chat,
                     SentMessage(s.message.chat, sendOk, NoMessage).id, sendOk)}]

\* Session::notify_participants_on_end: send "Session is over!" (a private chat
\* also deletes the anchor); the new message becomes the anchor.
NotifyOnEnd(s, sendOk, delOk) ==
    [sess |-> [s EXCEPT !.message = SentMessage(s.message.chat, sendOk, s.message)],
     notes |-> (IF Kind(s.message.chat) = "Group" THEN {}
                ELSE {Note("delete", s.message.chat, s.message.id, delOk)})
               \cup {Note("ended", s.message.chat,
                          SentMessage(s.message.chat, sendOk, NoMessage).id, sendOk)}]

\* An end_break that announces the end of a work session instead.
NotifyBreakAsEnd(s, sendOk, delOk) == [NotifyOnEnd(s, sendOk, delOk) EXCEPT !.sess = NoSession]

\* Session::notify_participants_on_break_end: send "Break is over!" (a private
\* chat also deletes the anchor); the session is not handed back.
NotifyOnBreakEnd(s, sendOk, delOk) ==
    [sess |-> NoSession,
     notes |-> (IF Kind(s.message.chat) = "Group" THEN {}
                ELSE {Note("delete", s.message.chat, s.message.id, delOk)})
               \cup {Note("break_over", s.message.chat,
                          SentMessage(s.message.chat, sendOk, NoMessage).id, sendOk)}]

\* periodic::end_break: in a private chat the anchor's deletion is requested
\* here as well, next to the notification that requests it too; each of the
\* two requests has an outcome of its own.
EndBreak(s, sendOk, delOk, ownDelOk) ==
    [sess |-> NotifyOnBreakEnd(s, sendOk, delOk).sess,
     notes |-> (IF Kind(s.message.chat) = "Group" THEN {}
                ELSE {Note("delete", s.message.chat, s.message.id, ownDelOk)})
               \cup NotifyOnBreakEnd(s, sendOk, delOk).notes]

(* --------------------- periodic::poll_for_expired_entries -------------- *)
SchedEvent(op, key, notes) == Event(op, "-", NoUser, 0, key, notes)

\* expirations.lock().unwrap().poll_expired(cx): one due key leaves the queue.
PollExpired ==
    /\ sched.pc = "poll"
    /\ MayRun(Sched)
    /\ lockX = Free
    /\ IF poisonX
       THEN /\ sched' = [IdleS EXCEPT !.pc = "dead"]
            /\ UNCHANGED expirations
       ELSE \E dk \in QDue(expirations) :
              /\ expirations' = QRemove(expirations, dk)
              /\ sched' = [IdleS EXCEPT !.pc = "take", !.key = expirations.slab[dk].key,
                                        !.dk = dk]
    /\ ev' = SchedEvent("poll_expired", NoKey, {})
    /\ UNCHANGED <<world, calls, elapsed, minute, nextMsg, entries, locks, hs>>

\* entries.lock().unwrap().remove(&cache_key)
TakeExpired ==
    /\ sched.pc = "take"
    /\ MayRun(Sched)
    /\ lockE = Free
    /\ IF poisonE
       THEN /\ sched' = [IdleS EXCEPT !.pc = "dead"]
            /\ UNCHANGED entries
       ELSE IF sched.key \in DOMAIN entries
       THEN /\ entries' = Drop(entries, sched.key)
            /\ sched' = [sched EXCEPT !.pc = "fire", !.sess = entries[sched.key].session]
       ELSE /\ sched' = IdleS
            /\ UNCHANGED entries
    /\ ev' = SchedEvent("take", sched.key, {})
    /\ UNCHANGED <<world, calls, elapsed, minute, nextMsg, expirations, locks, hs>>

\* The dispatch on the session's state and the notifier call of start_pomodoro,
\* end_pomodoro, start_break or end_break.
Fire ==
    /\ sched.pc = "fire"
    /\ MayRun(Sched)
    /\ LET s == sched.sess
           chat == s.message.chat
       IN  \E sendOk \in SendOutcomes(chat) : \E delOk \in BOOLEAN : \E ownDelOk \in BOOLEAN :
           IF IsWaiting(s)
           THEN IF Kind(chat) = "Group"
                THEN /\ sched' = [sched EXCEPT !.pc = "requeue",
                                               !.sess = NotifyOnStart(s, sendOk, delOk).sess]
                     /\ nextMsg' = AfterSend(chat, sendOk)
                     /\ ev' = SchedEvent("start_pomodoro", sched.key,
                                         NotifyOnStart(s, sendOk, delOk).notes)
                ELSE /\ sched' = [sched EXCEPT !.pc = "requeue"]
                     /\ nextMsg' = nextMsg
                     /\ ev' = SchedEvent("start_pomodoro", sched.key, {})
           ELSE IF IsRunning(s)
           THEN /\ sched' = [sched EXCEPT !.pc = "requeue",
                                          !.sess = NotifyOnEnd(s, sendOk, delOk).sess]
                /\ nextMsg' = AfterSend(chat, sendOk)
                /\ ev' = SchedEvent("end_pomodoro", sched.key,
                                    NotifyOnEnd(s, sendOk, delOk).notes)
           ELSE IF IsAwaitingBreak(s)
           THEN /\ sched' = [sched EXCEPT !.pc = "requeue"]
                /\ nextMsg' = nextMsg
                /\ ev' = SchedEvent("start_break", sched.key, {})
           ELSE /\ sched' = IdleS
                /\ nextMsg' = AfterSend(chat, sendOk)
                /\ ev' = SchedEvent("end_break", sched.key,
                                    EndBreak(s, sendOk, delOk, ownDelOk).notes)
    /\ UNCHANGED <<world, calls, elapsed, minute, store, locks, hs>>

\* State::start_session / State::start_break up to the queue insert: the state
\* advances, the key is taken from the session's message, the deadline is armed.
Advance(s) == IF IsWaiting(s) THEN [s EXCEPT !.state = "PomodoroRunning"] ELSE ConvertToBreak(s)

Requeue ==
    /\ sched.pc = "requeue"
    /\ MayRun(Sched)
    /\ lockX = Free
    /\ IF poisonX
       THEN /\ sched' = [IdleS EXCEPT !.pc = "dead"]
            /\ UNCHANGED expirations
       ELSE LET s == Advance(sched.sess)
                key == KeyOf(s.message)
            IN  /\ expirations' = QInsert(expirations, key, s.duration)
                /\ sched' = [sched EXCEPT !.pc = "reinsert", !.sess = s, !.key = key,
                                          !.dk = QNextKey(expirations)]
    /\ ev' = SchedEvent("requeue", sched.key, {})
    /\ UNCHANGED <<world, calls, elapsed, minute, nextMsg, entries, locks, hs>>

\* State::start_session / State::start_break: entries.insert.
Reinsert ==
    /\ sched.pc = "reinsert"
    /\ MayRun(Sched)
    /\ lockE = Free
    /\ IF poisonE
       THEN /\ sched' = [IdleS EXCEPT !.pc = "dead"]
            /\ UNCHANGED entries
       ELSE /\ entries' = Put(entries, sched.key, [session |-> sched.sess, dk |-> sched.dk])
            /\ sched' = IdleS
    /\ ev' = SchedEvent("reinsert", sched.key, {})
    /\ UNCHANGED <<world, calls, elapsed, minute, nextMsg, expirations, locks, hs>>

(* ------------------------ State::start_session_now --------------------- *)
\* command::start goes on to send the menu.
SendMenu(h) == [h EXCEPT !.pc = "st_menu"]

\* start_session_now returns Err(res) to its caller: start_now_pressed answers
\* the callback and is done, command::start (a reply to the message) goes on
\* to send the menu.
StartNowErr(p, h, res) ==
    \/ Return(p, h, res, {})
    \/ ReturnTo(p, h, res, SendMenu(h))

\* session_exists(&cache_key)?
StartSessionNow(p) ==
    /\ hs[p].pc = "idle"
    /\ MayRun(p)
    /\ Call
    /\ lockE = Free
    /\ \E chat \in world.chats : \E user \in UsersOf(chat) : \E id \in SentIds(chat) :
         LET key == NewKey(chat, id)
         IN  IF SessionExists(key)
             THEN Goto(p, [Locals("start_session_now", user, chat, key)
                             EXCEPT !.pc = "sn_owner1"])
             ELSE StartNowErr(p, Locals("start_session_now", user, chat, key), "NotFound")
    /\ UNCHANGED <<world, elapsed, minute, nextMsg, store, locks, sched>>

\* is_owner: session_exists(cache_key)?; any Err of is_owner is "not the owner".
IsOwnerExists(p) ==
    /\ hs[p].pc = "sn_owner1"
    /\ MayRun(p)
    /\ lockE = Free
    /\ IF SessionExists(hs[p].key)
       THEN Goto(p, [hs[p] EXCEPT !.pc = "sn_owner2"])
       ELSE StartNowErr(p, hs[p], "NotOwner")
    /\ UNCHANGED <<world, calls, elapsed, minute, nextMsg, store, locks, sched>>

\* is_owner: the creator's id against the caller's id; an entry that is gone
\* by now passes.
IsOwnerResult(key, user_id) ==
    IF poisonE THEN FALSE
    ELSE IF key \in DOMAIN entries THEN entries[key].session.creator.id = user_id
    ELSE TRUE

IsOwner(p) ==
    /\ hs[p].pc = "sn_owner2"
    /\ MayRun(p)
    /\ lockE = Free
    /\ IF IsOwnerResult(hs[p].key, hs[p].user.id)
       THEN Goto(p, [hs[p] EXCEPT !.pc = "sn_take"])
       ELSE StartNowErr(p, hs[p], "NotOwner")
    /\ UNCHANGED <<world, calls, elapsed, minute, nextMsg, store, locks, sched>>

\* A start-now that forgets to set the state.
StartedNowUnchanged(s) == s

\* The state start-now gives the session it took out of the map.
StartedNow(s) == [s EXCEPT !.state = "PomodoroRunning"]

\* entries.remove(&cache_key), then pomodoro.state = PomodoroRunning.
StartNowTake(p) ==
    /\ hs[p].pc = "sn_take"
    /\ MayRun(p)
    /\ lockE = Free
    /\ IF poisonE
       THEN /\ Return(p, hs[p], "Panic", {})
            /\ UNCHANGED entries
       ELSE IF hs[p].key \in DOMAIN entries
       THEN /\ entries' = Drop(entries, hs[p].key)
            /\ Goto(p, [hs[p] EXCEPT !.pc = "sn_notify",
                                     !.sess = StartedNow(entries[hs[p].key].session),
                                     !.dk = entries[hs[p].key].dk])
       ELSE /\ Return(p, hs[p], "Ok", {})
            /\ UNCHANGED entries
    /\ UNCHANGED <<world, calls, elapsed, minute, nextMsg, expirations, locks, sched>>

\* A start-now that locks the queue before it notifies.
StartNowNotifyLocked(p) ==
    /\ hs[p].pc = "sn_notify"
    /\ MayRun(p)
    /\ lockX = Free
    /\ lockX' = p
    /\ \E sendOk \in SendOutcomes(hs[p].sess.message.chat) : \E delOk \in BOOLEAN :
         /\ hs' = [hs EXCEPT ![p] = [hs[p] EXCEPT
                       !.pc = "sn_lockx",
                       !.sess = NotifyOnStart(hs[p].sess, sendOk, delOk).sess]]
         /\ nextMsg' = AfterSend(hs[p].sess.message.chat, sendOk)
         /\ ev' = Notified(hs[p], "notify_on_start",
                           NotifyOnStart(hs[p].sess, sendOk, delOk).notes)
    /\ UNCHANGED <<world, calls, elapsed, minute, store, lockE, poisonE, poisonX, sched>>

\* pomodoro.notify_participants_on_start(bot).await
StartNowNotify(p) ==
    /\ hs[p].pc = "sn_notify"
    /\ MayRun(p)
    /\ \E sendOk \in SendOutcomes(hs[p].sess.message.chat) : \E delOk \in BOOLEAN :
         /\ hs' = [hs EXCEPT ![p] = [hs[p] EXCEPT
                       !.pc = "sn_lockx",
                       !.sess = NotifyOnStart(hs[p].sess, sendOk, delOk).sess]]
         /\ nextMsg' = AfterSend(hs[p].sess.message.chat, sendOk)
         /\ ev' = Notified(hs[p], "notify_on_start",
                           NotifyOnStart(hs[p].sess, sendOk, delOk).notes)
    /\ UNCHANGED <<world, calls, elapsed, minute, store, locks, sched>>

\* expirations.lock().unwrap(); expirations.remove(&key)
StartNowUnqueue(p) ==
    /\ hs[p].pc = "sn_lockx"
    /\ MayRun(p)
    /\ lockX = Free
    /\ IF poisonX
       THEN /\ Return(p, hs[p], "Panic", {})
            /\ UNCHANGED <<expirations, lockX, poisonX>>
       ELSE IF ~QValid(expirations, hs[p].dk)
       THEN /\ Return(p, hs[p], "Panic", {})
            /\ poisonX' = TRUE
            /\ UNCHANGED <<expirations, lockX>>
       ELSE /\ expirations' = QRemove(expirations, hs[p].dk)
            /\ lockX' = p
            /\ Goto(p, [hs[p] EXCEPT !.pc = "sn_locke"])
            /\ UNCHANGED poisonX
    /\ UNCHANGED <<world, calls, elapsed, minute, nextMsg, entries, lockE, poisonE, sched>>

\* entries.lock().unwrap() under the expirations lock; expirations.insert and
\* entries.insert under the key start-now was called with.
StartNowRearm(p) ==
    /\ hs[p].pc = "sn_locke"
    /\ MayRun(p)
    /\ lockE = Free
    /\ lockX' = Free
    /\ IF poisonE
       THEN /\ Return(p, hs[p], "Panic", {})
            /\ poisonX' = TRUE
            /\ UNCHANGED store
       ELSE /\ expirations' = QInsert(expirations, hs[p].key, hs[p].sess.duration)
            /\ entries' = Put(entries, hs[p].key,
                              [session |-> hs[p].sess, dk |-> QNextKey(expirations)])
            /\ Return(p, hs[p], "Ok", {})
            /\ UNCHANGED poisonX
    /\ UNCHANGED <<world, calls, elapsed, minute, nextMsg, lockE, poisonE, sched>>

\* command::start after an Err of start_session_now: the menu is sent, and the
\* handler is done.
StartMenu(p) ==
    /\ hs[p].pc = "st_menu"
    /\ MayRun(p)
    /\ \E sendOk \in SendOutcomes(hs[p].chat) :
         /\ nextMsg' = AfterSend(hs[p].chat, sendOk)
         /\ hs' = [hs EXCEPT ![p] = IdleH]
         /\ ev' = Event("start", "-", NoUser, hs[p].chat, NoKey,
                        {Note("send", hs[p].chat,
                              SentMessage(hs[p].chat, sendOk, NoMessage).id, sendOk)})
    /\ UNCHANGED <<world, calls, elapsed, minute, store, locks, sched>>

(* ---------------- sessions_in_chat / newest_session_in_chat ------------- *)
SessionsInChat(chat) ==
    {entries[k].session : k \in {x \in DOMAIN entries : entries[x].session.message.chat = chat}}

\* A selection that takes the sort's first element.
Oldest(ss) == {s \in ss : \A o \in ss : s.message.id <= o.message.id}

\* The sessions with the highest message id among `ss` (the sort's last element).
Newest(ss) == {s \in ss : \A o \in ss : o.message.id <= s.message.id}

\* newest_session_in_chat: the key built from the newest waiting session's message.
NewestSessionInChat(chat) ==
    {KeyOf(s.message) : s \in Newest({x \in SessionsInChat(chat) : IsWaiting(x)})}

\* leave_latest_session: the newest session that contains the user (as a whole).
LatestSessionOf(chat, user) ==
    {KeyOf(s.message) : s \in Newest({x \in SessionsInChat(chat) : user \in x.participants})}

(* ----------------------- State::join_latest_session -------------------- *)
\* command::join goes on to reply with the error text.
SendInReply(h) == [h EXCEPT !.pc = "jn_reply"]

JoinLatestSession(p) ==
    /\ hs[p].pc = "idle"
    /\ MayRun(p)
    /\ Call
    /\ lockE = Free
    /\ \E chat \in world.chats : \E user \in UsersOf(chat) :
         IF poisonE
         THEN Return(p, Locals("join_latest_session", user, chat, NoKey), "Panic", {})
         ELSE IF NewestSessionInChat(chat) = {}
         THEN ReturnTo(p, Locals("join_latest_session", user, chat, NoKey),
                       "NoEligibleSession",
                       SendInReply(Locals("join_latest_session", user, chat, NoKey)))
         ELSE \E key \in NewestSessionInChat(chat) :
                Goto(p, [Locals("join_latest_session", user, chat, key)
                           EXCEPT !.pc = "jn_insert"])
    /\ UNCHANGED <<world, elapsed, minute, nextMsg, store, locks, sched>>

\* entries.get_mut(&cache_key), session.participants.insert(user)
JoinInsert(p) ==
    /\ hs[p].pc = "jn_insert"
    /\ MayRun(p)
    /\ lockE = Free
    /\ LET key == hs[p].key
           user == hs[p].user
       IN  IF poisonE
           THEN /\ ReturnTo(p, hs[p], "Poisoned", SendInReply(hs[p]))
                /\ UNCHANGED entries
           ELSE IF key \notin DOMAIN entries
           THEN /\ ReturnTo(p, hs[p], "SessionNotFound", SendInReply(hs[p]))
                /\ UNCHANGED entries
           ELSE IF user \in entries[key].session.participants
           THEN /\ ReturnTo(p, hs[p], "AlreadyJoined", SendInReply(hs[p]))
                /\ UNCHANGED entries
           ELSE /\ entries' = [entries EXCEPT ![key].session.participants = @ \cup {user}]
                /\ ReturnTo(p, hs[p], "Ok",
                            UpdateParticipantsText(hs[p], entries[key].session.message, "-"))
    /\ UNCHANGED <<world, calls, elapsed, minute, nextMsg, expirations, locks, sched>>

\* command::join after an Err of join_latest_session: the error text is sent
\* to the chat as a reply, and the handler is done.
JoinReply(p) ==
    /\ hs[p].pc = "jn_reply"
    /\ MayRun(p)
    /\ \E sendOk \in SendOutcomes(hs[p].chat) :
         /\ nextMsg' = AfterSend(hs[p].chat, sendOk)
         /\ hs' = [hs EXCEPT ![p] = IdleH]
         /\ ev' = Event("send_message_in_reply", "-", hs[p].user, hs[p].chat, hs[p].key,
                        {Note("reply", hs[p].chat,
                              SentMessage(hs[p].chat, sendOk, NoMessage).id, sendOk)})
    /\ UNCHANGED <<world, calls, elapsed, minute, store, locks, sched>>

(* ---------------------- State::update_participants_text ---------------- *)
\* The message a key was made from.
KeyMessage(key) == [chat |-> key[1], id |-> key[2]]

\* update_participants_text is done: the State function that called it
\* returns its result, the handler that called it is done.
Updated(p, h, notes) ==
    /\ hs' = [hs EXCEPT ![p] = IdleH]
    /\ ev' = IF h.ret = "-"
             THEN Event("update_participants_text", "-", h.user, h.chat, h.key, notes)
             ELSE Event(h.op, h.ret, h.user, h.chat, h.key, notes)

\* entries.lock(), entries.get(&cache_key) for the key of the message passed:
\* the session's message is read; a poisoned lock or a missing key ends the
\* update.
UpdateParticipantsRead(p) ==
    /\ hs[p].pc = "up_read"
    /\ MayRun(p)
    /\ lockE = Free
    /\ IF poisonE \/ KeyOf(hs[p].msg) \notin DOMAIN entries
       THEN Updated(p, hs[p], {})
       ELSE Goto(p, [hs[p] EXCEPT !.pc = "up_edit",
                                  !.msg = entries[KeyOf(hs[p].msg)].session.message])
    /\ UNCHANGED <<world, calls, elapsed, minute, nextMsg, store, locks, sched>>

\* bot.edit_message_text(message.chat.id, message.id, ..): the edit succeeds or
\* fails, and the caller returns.
UpdateParticipantsEdit(p) ==
    /\ hs[p].pc = "up_edit"
    /\ MayRun(p)
    /\ \E editOk \in BOOLEAN :
         Updated(p, hs[p], {Note("edit", hs[p].msg.chat, hs[p].msg.id, editOk)})
    /\ UNCHANGED <<world, calls, elapsed, minute, nextMsg, store, locks, sched>>

(* -------------------------- State::add_participant --------------------- *)
\* The join button under a message of the chat: session_exists(&cache_key),
\* whose Err is answered with Ok("Pomodoro not found!").
AddParticipant(p) ==
    /\ hs[p].pc = "idle"
    /\ MayRun(p)
    /\ Call
    /\ lockE = Free
    /\ \E chat \in world.chats : \E user \in UsersOf(chat) : \E id \in SentIds(chat) :
         LET key == NewKey(chat, id)
         IN  IF SessionExists(key)
             THEN Goto(p, [Locals("add_participant", user, chat, key)
                             EXCEPT !.pc = "ap_insert"])
             ELSE Return(p, Locals("add_participant", user, chat, key), "NotFound", {})
    /\ UNCHANGED <<world, elapsed, minute, nextMsg, store, locks, sched>>

\* A join button that makes the user who pressed it the creator.
AddParticipantAsOwner(p) ==
    /\ hs[p].pc = "ap_insert"
    /\ MayRun(p)
    /\ lockE = Free
    /\ IF poisonE \/ hs[p].key \notin DOMAIN entries
       THEN UNCHANGED entries
       ELSE entries' = [entries EXCEPT ![hs[p].key].session.participants = @ \cup {hs[p].user},
                                       ![hs[p].key].session.creator = hs[p].user]
    /\ Goto(p, UpdateParticipantsText(hs[p], KeyMessage(hs[p].key), "Ok"))
    /\ UNCHANGED <<world, calls, elapsed, minute, nextMsg, expirations, locks, sched>>

\* entries.get_mut(&cache_key), pomodoro.participants.insert(user); a key that
\* is gone by now is passed over.  update_participants_text follows before
\* Ok("Yay!") is returned.
AddParticipantInsert(p) ==
    /\ hs[p].pc = "ap_insert"
    /\ MayRun(p)
    /\ lockE = Free
    /\ LET key == hs[p].key
           user == hs[p].user
       IN  IF poisonE
           THEN /\ Return(p, hs[p], "Poisoned", {})
                /\ UNCHANGED entries
           ELSE IF key \notin DOMAIN entries
           THEN /\ Goto(p, UpdateParticipantsText(hs[p], KeyMessage(hs[p].key), "Ok"))
                /\ UNCHANGED entries
           ELSE IF user \in entries[key].session.participants
           THEN /\ Return(p, hs[p], "AlreadySubscribed", {})
                /\ UNCHANGED entries
           ELSE /\ entries' = [entries EXCEPT ![key].session.participants = @ \cup {user}]
                /\ Goto(p, UpdateParticipantsText(hs[p], KeyMessage(hs[p].key), "Ok"))
    /\ UNCHANGED <<world, calls, elapsed, minute, nextMsg, expirations, locks, sched>>

(* ---------------------- State::leave_latest_session -------------------- *)
LeaveLatestSession(p) ==
    /\ hs[p].pc = "idle"
    /\ MayRun(p)
    /\ Call
    /\ lockE = Free
    /\ \E chat \in world.chats : \E user \in UsersOf(chat) :
         IF poisonE
         THEN Return(p, Locals("leave_latest_session", user, chat, NoKey), "Panic", {})
         ELSE IF LatestSessionOf(chat, user) = {}
         THEN Return(p, Locals("leave_latest_session", user, chat, NoKey),
                     "NotSubscribed", {})
         ELSE \E key \in LatestSessionOf(chat, user) :
                Goto(p, [Locals("leave_latest_session", user, chat, key)
                           EXCEPT !.pc = "lv_exists"])
    /\ UNCHANGED <<world, elapsed, minute, nextMsg, store, locks, sched>>

\* remove_participant: session_exists(cache_key)?
RemoveParticipantExists(p) ==
    /\ hs[p].pc = "lv_exists"
    /\ MayRun(p)
    /\ lockE = Free
    /\ IF SessionExists(hs[p].key)
       THEN Goto(p, [hs[p] EXCEPT !.pc = "lv_remove"])
       ELSE Return(p, hs[p], "NotFound", {})
    /\ UNCHANGED <<world, calls, elapsed, minute, nextMsg, store, locks, sched>>

\* participants.retain(|uid| uid.id != user.id)
Retain(participants, user) == {u \in participants : u.id # user.id}

\* The creators the session can have after `user` left: unchanged unless the
\* leaver is the creator (compared as a whole) and somebody remains.
NextCreators(s, user) ==
    IF s.creator = user /\ Retain(s.participants, user) # {}
    THEN Retain(s.participants, user)
    ELSE {s.creator}

\* session_is_empty: set only when the leaver is the creator and nobody remains.
SessionIsEmpty(s, user) == s.creator = user /\ Retain(s.participants, user) = {}

\* remove_participant: the critical section that removes the user and hands
\* the ownership on.
RemoveParticipant(p) ==
    /\ hs[p].pc = "lv_remove"
    /\ MayRun(p)
    /\ lockE = Free
    /\ LET key == hs[p].key
           user == hs[p].user
       IN  IF poisonE
           THEN /\ Return(p, hs[p], "Poisoned", {})
                /\ UNCHANGED entries
           ELSE IF key \notin DOMAIN entries
           THEN /\ Return(p, hs[p], "FailedToDelete", {})
                /\ UNCHANGED entries
           ELSE \E c \in NextCreators(entries[key].session, user) :
                  /\ entries' = [entries EXCEPT
                         ![key].session.participants = Retain(@, user),
                         ![key].session.creator = c]
                  /\ IF SessionIsEmpty(entries[key].session, user)
                     THEN Goto(p, [hs[p] EXCEPT !.pc = "lv_delete"])
                     ELSE Goto(p, UpdateParticipantsText(hs[p], KeyMessage(hs[p].key), "Left"))
    /\ UNCHANGED <<world, calls, elapsed, minute, nextMsg, expirations, locks, sched>>

\* join!(bot.delete_message(..), remove_session_from_queue): the deletion is
\* requested, then session_exists(&cache_key)?
RemoveSessionExists(p) ==
    /\ hs[p].pc = "lv_delete"
    /\ MayRun(p)
    /\ lockE = Free
    /\ \E delOk \in BOOLEAN :
         LET notes == {Note("delete", hs[p].key[1], hs[p].key[2], delOk)}
         IN  IF SessionExists(hs[p].key)
             THEN /\ hs' = [hs EXCEPT ![p] = [hs[p] EXCEPT !.pc = "lv_take"]]
                  /\ ev' = Notified(hs[p], "delete_message", notes)
             ELSE /\ hs' = [hs EXCEPT ![p] = UpdateParticipantsText(hs[p], KeyMessage(hs[p].key), "Left")]
                  /\ ev' = Notified(hs[p], "delete_message", notes)
    /\ UNCHANGED <<world, calls, elapsed, minute, nextMsg, store, locks, sched>>

\* remove_session_from_queue: entries.remove(&cache_key); the entries lock is
\* kept for the queue removal.
RemoveSessionTake(p) ==
    /\ hs[p].pc = "lv_take"
    /\ MayRun(p)
    /\ lockE = Free
    /\ IF poisonE \/ hs[p].key \notin DOMAIN entries
       THEN /\ Goto(p, UpdateParticipantsText(hs[p], KeyMessage(hs[p].key), "Left"))
            /\ UNCHANGED <<entries, lockE>>
       ELSE /\ entries' = Drop(entries, hs[p].key)
            /\ lockE' = p
            /\ Goto(p, [hs[p] EXCEPT !.pc = "lv_unqueue", !.dk = entries[hs[p].key].dk])
    /\ UNCHANGED <<world, calls, elapsed, minute, nextMsg, expirations, lockX, poisonE, poisonX, sched>>

\* remove_session_from_queue: expirations.remove(&delay_key) under both locks.
RemoveSessionUnqueue(p) ==
    /\ hs[p].pc = "lv_unqueue"
    /\ MayRun(p)
    /\ lockX = Free
    /\ lockE' = Free
    /\ IF poisonX
       THEN /\ Goto(p, UpdateParticipantsText(hs[p], KeyMessage(hs[p].key), "Left"))
            /\ UNCHANGED <<expirations, poisonE, poisonX>>
       ELSE IF ~QValid(expirations, hs[p].dk)
       THEN /\ Return(p, hs[p], "Panic", {})
            /\ poisonE' = TRUE
            /\ poisonX' = TRUE
            /\ UNCHANGED expirations
       ELSE /\ expirations' = QRemove(expirations, hs[p].dk)
            /\ Goto(p, UpdateParticipantsText(hs[p], KeyMessage(hs[p].key), "Left"))
            /\ UNCHANGED <<poisonE, poisonX>>
    /\ UNCHANGED <<world, calls, elapsed, minute, nextMsg, entries, lockX, sched>>

(* --------------------------- specifications ---------------------------- *)
Handler(p) ==
    \/ Start(p)
    \/ SendHelpText(p)
    \/ StartMenu(p)
    \/ CreatePomodoro(p)
    \/ FiveMinuteBreak(p)
    \/ NewPomodoro(p)
    \/ NewBreak(p)
    \/ AddSessionToQueueX(p)
    \/ AddSessionToQueueE(p)
    \/ StartSessionNow(p)
    \/ IsOwnerExists(p)
    \/ IsOwner(p)
    \/ StartNowTake(p)
    \/ StartNowNotify(p)
    \/ StartNowUnqueue(p)
    \/ StartNowRearm(p)
    \/ JoinLatestSession(p)
    \/ JoinInsert(p)
    \/ JoinReply(p)
    \/ AddParticipant(p)
    \/ AddParticipantInsert(p)
    \/ LeaveLatestSession(p)
    \/ RemoveParticipantExists(p)
    \/ RemoveParticipant(p)
    \/ RemoveSessionExists(p)
    \/ RemoveSessionTake(p)
    \/ RemoveSessionUnqueue(p)
    \/ UpdateParticipantsRead(p)
    \/ UpdateParticipantsEdit(p)

Scheduler == PollExpired \/ TakeExpired \/ Fire \/ Requeue \/ Reinsert

Next == Tick \/ Scheduler \/ \E p \in Procs : Handler(p)

\* Handlers and the scheduler interleave at every lock release and await.
Spec == Init /\ [][Next]_vars

\* Every operation runs to completion before the next one starts.
SpecSeq == InitSeq /\ [][Next]_vars

\* A few operations, one at a time, on several sessions in two chats.
SpecMany == InitMany /\ [][Next]_vars

\* Handlers and the scheduler interleave on two registered sessions.
SpecPair == InitPair /\ [][Next]_vars

\* A handler and the scheduler interleave on one waiting work session.
SpecRace == InitRace /\ [][Next]_vars

\* Handlers and the scheduler interleave on one session with room for another.
SpecTwo == InitTwo /\ [][Next]_vars

\* State::new_break on its own, with the scheduler.
NextBreak ==
    \/ Tick
    \/ Scheduler
    \/ \E p \in Procs : NewBreakGiven(p) \/ AddSessionToQueueX(p) \/ AddSessionToQueueE(p)

\* A break registered with explicit arguments runs its course.
SpecBreak == InitBreak /\ [][NextBreak]_vars

\* A handler invocation that has begun takes its next step.
Continue(p) == hs[p].pc # "idle" /\ Handler(p)

\* The runtime of #[tokio::main] keeps polling every spawned task: time passes,
\* the scheduler loop keeps turning and a handler that was called runs to its
\* return; nothing obliges a user to send a command.
Fairness ==
    /\ WF_vars(Tick)
    /\ WF_vars(Scheduler)
    /\ \A p \in Procs : WF_vars(Continue(p))

SpecFair == InitFair /\ [][Next]_vars /\ Fairness

(* ------------------------------- claims -------------------------------- *)
\* Keys of the map and keys with a pending deadline coincide, one deadline each.
Paired ==
    /\ DOMAIN entries = QKeys(expirations)
    /\ \A k \in DOMAIN entries : Cardinality(QHandlesOf(expirations, k)) = 1

\* C1: when the store operations run one at a time, after every completed
\* operation the keys of the session map are exactly the keys with a pending
\* deadline, and each of them has exactly one pending deadline.
C1_MapQueueBijection == Quiet => Paired

\* A start-now has completed and its session is registered with one deadline.
C1_Witness ==
    /\ Quiet
    /\ ev.op = "start_session_now" /\ ev.res = "Ok"
    /\ ev.key \in DOMAIN entries
    /\ Cardinality(QHandlesOf(expirations, ev.key)) = 1

\* C2: under interleaving, whenever no task is inside a critical section the
\* map and the queue hold the same keys (a key in one and not in the other is
\* never there for another task to see).
C2_NoPartialStateVisible ==
    (lockE = Free /\ lockX = Free) => DOMAIN entries = QKeys(expirations)

\* C3: every session in the store has at least one participant, in every
\* reachable state.
C3_ParticipantsNeverEmpty ==
    \A k \in DOMAIN entries : entries[k].session.participants # {}

\* C4: start-now takes a session out of the map to start it only for a caller
\* who is the session's creator at that moment, also while a leave runs.
C4_StartNowOnlyByCreator ==
    [][\A p \in Procs :
         (hs[p].pc = "sn_take" /\ hs'[p].pc = "sn_notify")
            => entries[hs[p].key].session.creator.id = hs[p].user.id]_vars

\* The state changes the lifecycle allows.
Lifecycle ==
    {<<"PomodoroWaiting", "PomodoroRunning">>, <<"PomodoroRunning", "BreakRunning">>,
     <<"BreakWaiting", "BreakRunning">>}

\* C5: a session's state only ever changes along WorkWaiting -> WorkRunning ->
\* BreakRunning or BreakWaiting -> BreakRunning, whether start-now or the
\* scheduler changes it.
C5_OnlyLifecycleTransitions ==
    [][/\ \A p \in Procs :
            (hs[p].pc = "sn_take" /\ hs'[p].pc = "sn_notify")
               => <<entries[hs[p].key].session.state, hs'[p].sess.state>> \in Lifecycle
       /\ (sched.pc = "requeue" /\ sched'.pc = "reinsert")
               => <<sched.sess.state, sched'.sess.state>> \in Lifecycle]_vars

\* Keys of the chat's sessions that wait for their work phase.
WaitingIn(chat) ==
    {k \in DOMAIN entries : /\ entries[k].session.message.chat = chat
                            /\ IsWaiting(entries[k].session)}

\* The user (the same id, whatever the profile) takes part in the session.
TakesPart(user, s) == \E w \in s.participants : w.id = user.id

\* C6: a join in a chat without a waiting work session returns
\* NoEligibleSession; a join by a user who already takes part in the selected
\* session returns AlreadyJoined; both leave the map and the queue as they were.
C6_JoinFailures ==
    [][\A p \in Procs :
         /\ (hs[p].pc = "idle" /\ hs'[p].pc = "jn_insert") => WaitingIn(hs'[p].chat) # {}
         /\ (hs[p].pc = "idle" /\ hs'[p].pc \in {"idle", "jn_reply"}
               /\ ev'.op = "join_latest_session" /\ WaitingIn(ev'.chat) = {})
              => ev'.res = "NoEligibleSession"
         /\ (hs[p].pc = "jn_insert" /\ hs'[p].pc # "jn_insert" /\ hs[p].key \in DOMAIN entries
               /\ TakesPart(hs[p].user, entries[hs[p].key].session))
              => ev'.res = "AlreadyJoined"
         /\ (hs[p].pc \in {"idle", "jn_insert"} /\ hs'[p].pc \in {"idle", "jn_reply"}
               /\ ev'.op = "join_latest_session"
               /\ ev'.res \in {"AlreadyJoined", "NoEligibleSession"})
              => UNCHANGED store]_vars

\* C7: the scheduler takes a deadline only when it is due; for a work session
\* of a group it then sets WorkRunning and arms one deadline a work duration
\* ahead, and at that deadline sets BreakRunning with the duration field at the
\* break length and arms one deadline a break length ahead; the session is
\* registered again with that deadline.
C7_SchedulerArmsDeadlines ==
    [][/\ (sched.pc = "poll" /\ sched'.pc = "take")
            => /\ expirations.slab[sched'.dk].deadline = 0
               /\ expirations.slab[sched'.dk].key = sched'.key
       /\ (sched.pc = "requeue" /\ sched'.pc = "reinsert"
             /\ Kind(sched.sess.message.chat) = "Group"
             /\ sched.sess.state \in {"PomodoroWaiting", "PomodoroRunning"})
            => /\ IsWaiting(sched.sess) =>
                    /\ sched'.sess.state = "PomodoroRunning"
                    /\ sched'.sess.duration = sched.sess.duration
               /\ IsRunning(sched.sess) =>
                    /\ sched'.sess.state = "BreakRunning"
                    /\ sched'.sess.duration = BreakDuration
               /\ QHandlesOf(expirations', sched'.key) = {sched'.dk}
               /\ expirations'.slab[sched'.dk].deadline = sched'.sess.duration
       /\ (sched.pc = "reinsert" /\ sched'.pc = "poll")
            => /\ sched.key \in DOMAIN entries'
               /\ entries'[sched.key] = [session |-> sched.sess, dk |-> sched.dk]
               /\ QHandlesOf(expirations', sched.key) = {sched.dk}]_vars

\* A group's session has been announced as started and as over: it is
\* registered as BreakRunning with one deadline a break length ahead.
C7_Witness ==
    /\ Quiet
    /\ ev.op = "reinsert"
    /\ ev.key \in DOMAIN entries
    /\ Kind(ev.key[1]) = "Group"
    /\ entries[ev.key].session.state = "BreakRunning"
    /\ entries[ev.key].session.duration = BreakDuration
    /\ entries[ev.key].session.message.id >= 3
    /\ \E dk \in QHandlesOf(expirations, ev.key) : expirations.slab[dk].deadline = BreakDuration

\* C8: when the deadline of a BreakRunning session fires, "break over" is sent,
\* the scheduler registers nothing again, and the key is neither in the map nor
\* in the queue.
C8_BreakEndIsTerminal ==
    [][(sched.pc = "fire" /\ sched'.pc # "fire" /\ IsTakingABreak(sched.sess))
          => /\ sched' = IdleS
             /\ ev'.op = "end_break"
             /\ \E n \in ev'.notes : n.what = "break_over" /\ n.chat = sched.key[1]
             /\ sched.key \notin DOMAIN entries'
             /\ QHandlesOf(expirations', sched.key) = {}]_vars

\* A break has just ended: the notification is out and the key is gone.
C8_Witness ==
    /\ ev.op = "end_break"
    /\ \E n \in ev.notes : n.what = "break_over"
    /\ ev.key \notin DOMAIN entries
    /\ ev.key \notin QKeys(expirations)
    /\ Quiet

\* C9: when the creator leaves a session in which somebody else takes part,
\* the creator becomes one of the remaining participants, the leaver takes part
\* no longer, and the session keeps its key, state and deadline.
C9_OwnershipTransfer ==
    [][\A p \in Procs :
         (/\ hs[p].pc = "lv_remove" /\ hs'[p].pc # "lv_remove"
          /\ hs[p].key \in DOMAIN entries
          /\ entries[hs[p].key].session.creator.id = hs[p].user.id
          /\ \E w \in entries[hs[p].key].session.participants : w.id # hs[p].user.id)
            => /\ hs[p].key \in DOMAIN entries'
               /\ LET s == entries[hs[p].key].session
                      t == entries'[hs[p].key].session
                  IN  /\ t.creator \in t.participants
                      /\ t.participants \subseteq s.participants
                      /\ ~TakesPart(hs[p].user, t)
                      /\ t.state = s.state
               /\ entries'[hs[p].key].dk = entries[hs[p].key].dk
               /\ expirations' = expirations]_vars

\* C10: once a leave by the only participant of the session it selected has
\* returned, that session is registered no longer.
C10_LastLeaveRemovesSession ==
    [][\A p \in Procs :
         (hs[p].op = "leave_latest_session" /\ hs[p].pc # "idle" /\ hs'[p].pc = "idle")
            => \A k \in DOMAIN entries' :
                  ~(/\ KeyOf(entries'[k].session.message) = hs[p].key
                    /\ entries'[k].session.participants = {hs[p].user})]_vars

\* C11: a register for an occupied key returns AlreadyExists and leaves the
\* map and the queue alone; any other register arms one deadline for the key,
\* at the session's start time, and returns with the session stored under the
\* key, which was vacant, and with that deadline as the key's only one.
C11_RegisterOncePerKey ==
    [][\A p \in Procs :
         /\ (hs[p].pc = "reg_call" /\ hs'[p].pc = "idle" /\ ev'.res = "AlreadyExists")
              => UNCHANGED store
         /\ (hs[p].pc = "reg_queue" /\ hs'[p].pc = "reg_map")
              => expirations'.slab[hs'[p].dk].deadline = hs[p].sess.start_time
         /\ (hs[p].pc \in {"reg_queue", "reg_map"} /\ hs'[p].pc \notin {"reg_queue", "reg_map"})
              => /\ ev'.res = "Ok"
                 /\ hs[p].key \notin DOMAIN entries
                 /\ hs[p].key \in DOMAIN entries'
                 /\ entries'[hs[p].key].session = hs[p].sess
                 /\ QHandlesOf(expirations', hs[p].key) = {entries'[hs[p].key].dk}
                 /\ expirations'.slab[entries'[hs[p].key].dk].deadline
                       = hs[p].sess.start_time]_vars

\* C12: a start-now that takes a waiting work session makes it WorkRunning
\* with its duration kept; the deadline the session had is pending no longer;
\* the session is stored again with exactly one pending deadline, one
\* duration ahead of the re-arming.
C12_StartNowRearms ==
    [][\A p \in Procs :
         /\ (hs[p].pc = "sn_take" /\ hs'[p].pc = "sn_notify"
               /\ IsWaiting(entries[hs[p].key].session))
              => /\ hs'[p].sess.state = "PomodoroRunning"
                 /\ hs'[p].sess.duration = entries[hs[p].key].session.duration
                 /\ hs'[p].dk = entries[hs[p].key].dk
                 /\ QHandlesOf(expirations, hs[p].key) = {hs'[p].dk}
         /\ (hs[p].pc = "sn_lockx" /\ hs'[p].pc = "sn_locke")
              => /\ hs[p].dk \notin QPending(expirations')
                 /\ QHandlesOf(expirations', hs[p].key) = {}
         /\ (hs[p].pc = "sn_locke" /\ hs'[p].pc = "idle")
              => /\ ev'.res = "Ok"
                 /\ hs[p].key \in DOMAIN entries'
                 /\ entries'[hs[p].key].session = hs[p].sess
                 /\ QHandlesOf(expirations', hs[p].key) = {entries'[hs[p].key].dk}
                 /\ expirations'.slab[entries'[hs[p].key].dk].deadline
                       = hs[p].sess.duration]_vars

\* A work session of a group was started before its start time: it runs, and
\* its only deadline is a work duration ahead.
C12_Witness ==
    /\ Quiet
    /\ ev.op = "start_session_now" /\ ev.res = "Ok"
    /\ ev.key \in DOMAIN entries
    /\ entries[ev.key].session.state = "PomodoroRunning"
    /\ entries[ev.key].session.start_time > 0
    /\ entries[ev.key].session.duration = WorkDuration
    /\ \A dk \in QPending(expirations) :
          expirations.slab[dk].key = ev.key /\ expirations.slab[dk].deadline = WorkDuration

\* Keys of the chat's waiting work sessions with the highest anchor message.
HighestWaiting(chat) ==
    {k \in WaitingIn(chat) :
        \A j \in WaitingIn(chat) :
            entries[j].session.message.id <= entries[k].session.message.id}

\* C13: a join selects the waiting work session of its chat with the highest
\* anchor-message id, adds the user to that session's participants, changes
\* nothing else in the map or the queue, and returns that session's anchor
\* message.
C13_JoinSelectsNewestWaiting ==
    [][\A p \in Procs :
         /\ (hs[p].pc = "idle" /\ hs'[p].pc = "jn_insert")
              => /\ hs'[p].key \in HighestWaiting(hs'[p].chat)
                 /\ KeyOf(entries[hs'[p].key].session.message) = hs'[p].key
         /\ (hs[p].pc = "jn_insert" /\ hs'[p].pc # "jn_insert"
               /\ hs[p].key \in DOMAIN entries
               /\ hs[p].user \notin entries[hs[p].key].session.participants)
              => /\ ev'.res = "Ok"
                 /\ ev'.key = KeyOf(entries[hs[p].key].session.message)
                 /\ hs[p].key \in HighestWaiting(hs[p].chat)
                 /\ entries' = [entries EXCEPT ![hs[p].key].session.participants =
                                                   @ \cup {hs[p].user}]
                 /\ expirations' = expirations]_vars

\* A join has just succeeded in a chat that holds another session, which the
\* user did not get into.
C13_Witness ==
    /\ ev.op = "join_latest_session" /\ ev.res = "Ok"
    /\ ev.key \in DOMAIN entries
    /\ ev.user \in entries[ev.key].session.participants
    /\ \E j \in DOMAIN entries \ {ev.key} :
          /\ entries[j].session.message.chat = ev.chat
          /\ ev.user \notin entries[j].session.participants

\* C14: a leave in a chat where some session has the user as participant
\* selects one and succeeds in removing the user from it, whatever the
\* session's state and however it was started; a leave that reports "not
\* subscribed" found no such session and changes nothing.
C14_LeaveSucceedsWhenSubscribed ==
    [][\A p \in Procs :
         /\ (hs[p].pc = "idle" /\ hs'[p].pc = "idle"
               /\ ev'.op = "leave_latest_session" /\ ev'.res = "NotSubscribed")
              => /\ UNCHANGED store
                 /\ \A s \in SessionsInChat(ev'.chat) : ev'.user \notin s.participants
         /\ (hs[p].op = "leave_latest_session" /\ hs[p].pc # "idle" /\ hs'[p].pc = "idle")
              => ev'.res = "Left"
         /\ (hs[p].pc = "lv_remove" /\ hs'[p].pc # "lv_remove")
              => /\ hs[p].key \in DOMAIN entries
                 /\ hs[p].user \notin entries'[hs[p].key].session.participants
                 /\ \A k \in DOMAIN entries \ {hs[p].key} :
                       k \in DOMAIN entries' /\ entries'[k] = entries[k]]_vars

\* C15: a deadline the scheduler takes from the queue is followed by the
\* transition of its session, unless a start-now holds the session and is
\* about to discard that very deadline.
C15_DeadlineDrivesTransition ==
    [][(sched.pc = "take" /\ sched'.pc # "take")
          => \/ sched.key \in DOMAIN entries /\ sched'.pc = "fire"
             \/ \E p \in Procs : /\ hs[p].pc \in {"sn_notify", "sn_lockx"}
                                 /\ hs[p].key = sched.key
                                 /\ hs[p].dk = sched.dk]_vars

\* C16: from the moment the scheduler has popped a due key until it stores the
\* session again or drops it, the map has no entry under that key.
C16_TakenSessionNotAddressable ==
    sched.pc \in {"take", "fire", "requeue"} => sched.key \notin DOMAIN entries

\* C17: when the scheduler takes a session out of the map to apply its
\* transition, the deadline that is armed for the session (the one whose
\* handle is stored with it) is not pending with time still to go.
C17_NeverFiresEarly ==
    [][(sched.pc = "take" /\ sched'.pc = "fire")
          => LET dk == entries[sched.key].dk
             IN  ~(/\ QValid(expirations, dk)
                   /\ expirations.slab[dk].key = sched.key
                   /\ expirations.slab[dk].deadline > 0)]_vars

C19_NotifierFailuresDoNotBlock ==
    [][/\ (sched.pc = "fire" /\ sched'.pc # "fire")
            => IF IsTakingABreak(sched.sess)
               THEN /\ sched' = IdleS
                    /\ sched.key \notin DOMAIN entries'
                    /\ QHandlesOf(expirations', sched.key) = {}
               ELSE /\ sched'.pc = "requeue"
                    /\ [sched'.sess EXCEPT !.message = sched.sess.message] = sched.sess
                    /\ sched'.sess.message.chat = sched.sess.message.chat
       /\ (sched.pc = "requeue" /\ sched'.pc # "requeue")
            => /\ sched'.pc = "reinsert"
               /\ sched'.sess.state = IF IsWaiting(sched.sess) THEN "PomodoroRunning"
                                      ELSE "BreakRunning"
               /\ QHandlesOf(expirations', sched'.key) = {sched'.dk}
               /\ expirations'.slab[sched'.dk].deadline = sched'.sess.duration
       /\ (sched.pc = "reinsert" /\ sched'.pc # "reinsert")
            => /\ sched' = IdleS
               /\ sched.key \in DOMAIN entries'
               /\ entries'[sched.key] = [session |-> sched.sess, dk |-> sched.dk]]_vars

\* The scheduler has started a group's work session whose start notification
\* could not be sent: the anchor is still the chat's first message, and the
\* session runs.
C19_Witness ==
    /\ Quiet
    /\ ev.op = "reinsert"
    /\ ev.key \in DOMAIN entries
    /\ Kind(ev.key[1]) = "Group"
    /\ entries[ev.key].session.state = "PomodoroRunning"
    /\ entries[ev.key].session.message.id = 1
    /\ QHandlesOf(expirations, ev.key) = {entries[ev.key].dk}

\* C20: while the scheduler loop stays alive, the store is empty from some
\* moment on: every session that was registered is removed for good (commands
\* are finitely many here, so nothing is registered after the last one).
C20_EverySessionEventuallyRemoved ==
    [](sched.pc # "dead") => <>[](DOMAIN entries = {})

\* C21: a start-now that returns NotFound changes neither the map nor the
\* queue, and a start-now that returns success leaves the session of its key in
\* the map, running, with its deadline pending.
C21_StartNowSuccessMeansStarted ==
    [][ev'.op = "start_session_now"
          => /\ ev'.res = "NotFound" => UNCHANGED store
             /\ ev'.res = "Ok"
                  => /\ ev'.key \in DOMAIN entries'
                     /\ IsRunning(entries'[ev'.key].session)
                     /\ entries'[ev'.key].dk \in QHandlesOf(expirations', ev'.key)]_vars

\* C22: the creator of every registered session whose participants set is
\* not empty is one of its participants.
C22_CreatorIsParticipant ==
    \A k \in DOMAIN entries :
        entries[k].session.participants # {}
            => entries[k].session.creator \in entries[k].session.participants

\* C23: a session taken out of the store for a transition is armed and stored
\* again under the key it was taken from, by the scheduler and by start-now.
C23_KeyIsImmutable ==
    [][/\ (sched.pc = "requeue" /\ sched'.pc = "reinsert")
            => /\ sched'.key = sched.key
               /\ expirations'.slab[sched'.dk].key = sched.key
       /\ (sched.pc = "reinsert" /\ sched' = IdleS)
            => /\ sched.key \in DOMAIN entries'
               /\ entries'[sched.key].session = sched.sess
       /\ \A p \in Procs :
            (hs[p].pc = "sn_locke" /\ hs'[p].pc = "idle" /\ ev'.res = "Ok")
                => /\ ev'.key = hs[p].key
                   /\ hs[p].key \in DOMAIN entries'
                   /\ entries'[hs[p].key].session = hs[p].sess
                   /\ expirations'.slab[entries'[hs[p].key].dk].key = hs[p].key]_vars

\* C24: no state has one handler holding the map and waiting for the queue
\* while another holds the queue and waits for the map.
C24_NoLockCycle ==
    ~ \E p, q \in Procs :
        /\ p # q
        /\ lockE = p /\ hs[p].pc = "lv_unqueue"
        /\ lockX = q /\ hs[q].pc = "sn_locke"

\* C25: a step that calls the notifier is taken by a task that holds neither
\* the map nor the queue, before and after the call, and it changes neither;
\* the scheduler calls it for a session it has taken out of the map.
C25_NoNotifierCallUnderLock ==
    [][ev'.notes # {}
          => /\ UNCHANGED <<store, locks>>
             /\ \A p \in Procs : hs'[p] # hs[p] => lockE # p /\ lockX # p
             /\ sched' # sched
                  => /\ lockE # Sched /\ lockX # Sched
                     /\ sched.pc = "fire" /\ sched.sess # NoSession]_vars

\* A start-now has just notified the participants and is about to lock the
\* queue; both locks are free.
C25_Witness ==
    /\ ev.op = "notify_on_start"
    /\ ev.notes # {}
    /\ \E p \in Procs : hs[p].pc = "sn_lockx" /\ hs[p].key = ev.key
    /\ lockE = Free
    /\ lockX = Free

\* C26: while the scheduler loop stays alive, a session waiting in the map for
\* its break to begin does not wait for ever: the scheduler advances it (or it
\* is removed).
C26_WaitingBreakAdvances ==
    [](sched.pc # "dead")
        => ((\E k \in DOMAIN entries : IsAwaitingBreak(entries[k].session))
               ~> (\A k \in DOMAIN entries : ~IsAwaitingBreak(entries[k].session)))

\* Sessions the store answers for: those in the map and those a transition
\* (of the scheduler or of a start-now) has taken out of it for the moment.
Held ==
    Cardinality(DOMAIN entries)
        + (IF sched.sess # NoSession THEN 1 ELSE 0)
        + Cardinality({p \in Procs : hs[p].pc \in {"sn_notify", "sn_lockx", "sn_locke"}})

\* C27: the number of sessions the store answers for goes down only when the
\* scheduler ends a running break and when a leave deletes the session it has
\* emptied.
C27_OnlyTwoWaysOut ==
    [][Held' < Held
          => \/ sched.pc = "fire" /\ IsTakingABreak(sched.sess) /\ sched' = IdleS
             \/ \E p \in Procs : hs[p].pc = "lv_take" /\ hs'[p].pc = "lv_unqueue"]_vars

\* What a "session started" notification does to the session `before`: the
\* deletion of the anchor and one send are asked for, the message that was sent
\* becomes the anchor (a failed send leaves the anchor), nothing else changes.
StartNotified(before, after, notes) ==
    /\ \E n \in notes : n.what = "started"
    /\ \E n \in notes : n.what = "delete" /\ n.msg = before.message.id
    /\ \A n \in notes : n.what = "started"
          => after.message = IF n.ok THEN [chat |-> before.message.chat, id |-> n.msg]
                             ELSE before.message
    /\ \A n \in notes : n.what = "started" /\ n.ok => n.msg # before.message.id
    /\ [after EXCEPT !.message = before.message] = before

\* C28 (as the code has it): a waiting work session started by the scheduler
\* in a group, or by start-now, is notified as started and gets the sent
\* message as its anchor; one started by the scheduler in a private chat is
\* started silently and keeps its anchor; the duration is kept in every case.
C28_StartNotifiesExceptPrivateDeadline ==
    [][/\ (sched.pc = "fire" /\ sched'.pc = "requeue" /\ IsWaiting(sched.sess))
            => /\ sched'.sess.duration = sched.sess.duration
               /\ IF Kind(sched.sess.message.chat) = "Group"
                  THEN StartNotified(sched.sess, sched'.sess, ev'.notes)
                  ELSE ev'.notes = {} /\ sched'.sess = sched.sess
       /\ \A p \in Procs :
            (hs[p].pc = "sn_notify" /\ hs'[p].pc = "sn_lockx")
                => /\ hs'[p].sess.duration = hs[p].sess.duration
                   /\ StartNotified(hs[p].sess, hs'[p].sess, ev'.notes)]_vars

\* The scheduler has started a waiting work session of a private chat without
\* a word to the notifier; the session is about to be armed again.
C28_Witness ==
    /\ ev.op = "start_pomodoro"
    /\ ev.notes = {}
    /\ sched.pc = "requeue"
    /\ IsWaiting(sched.sess)
    /\ Kind(sched.sess.message.chat) = "Private"
    /\ sched.sess.message.id = sched.key[2]

\* C28: whenever a waiting work session is started, by the scheduler or by
\* start-now, in a group or in a private chat, the step that starts it asks the
\* notifier for a "session started" message, and the duration is kept.
C28_StartNotifies ==
    [][/\ (sched.pc = "fire" /\ sched'.pc = "requeue" /\ IsWaiting(sched.sess))
            => /\ \E n \in ev'.notes : n.what = "started"
               /\ sched'.sess.duration = sched.sess.duration
       /\ \A p \in Procs :
            (hs[p].pc = "sn_notify" /\ hs'[p].pc = "sn_lockx")
                => /\ \E n \in ev'.notes : n.what = "started"
                   /\ hs'[p].sess.duration = hs[p].sess.duration]_vars

\* C29: a join that succeeds inserts its user into a session that is a
\* waiting work session at the moment of the insertion, and a join that fails
\* changes no session.
C29_JoinOnlyIntoWaiting ==
    [][\A p \in Procs :
          (hs[p].pc = "jn_insert" /\ hs'[p].pc # "jn_insert")
              => IF ev'.res = "Ok"
                 THEN /\ hs[p].key \in DOMAIN entries
                      /\ IsWaiting(entries[hs[p].key].session)
                 ELSE UNCHANGED entries]_vars

C31_RemovedHandleIsPendingAndOwn ==
    [][\A p \in Procs :
          (/\ hs[p].pc \in {"sn_lockx", "lv_unqueue"}
           /\ hs'[p].pc # hs[p].pc
           /\ ~poisonX)
              => /\ QValid(expirations, hs[p].dk)
                 /\ expirations.slab[hs[p].dk].key = hs[p].key]_vars

\* C32: every session in the map is stored under the key formed from its own
\* chat and anchor message.
C32_StoredUnderOwnKey ==
    \A k \in DOMAIN entries : k = KeyOf(entries[k].session.message)

\* C33: when the first command on the waiting work session is a start-now that
\* got past its checks, and it and the scheduler are done, the map holds the
\* one session, running, and the queue holds its one deadline.
C33_RaceStartsOnce ==
    (/\ calls = 1
     /\ ev.op = "start_session_now"
     /\ ev.res \notin {"NotFound", "NotOwner"}
     /\ Quiet)
        => \E k \in DOMAIN entries :
              /\ DOMAIN entries = {k}
              /\ IsRunning(entries[k].session)
              /\ QPending(expirations) = {entries[k].dk}
              /\ expirations.slab[entries[k].dk].key = k

\* The map after a participant operation on `key`: the same keys and handles,
\* every other session as it was, and the session of `key` changed in its
\* participants at most (`owner`: and in its creator).
OnlyParticipantsChanged(key, owner) ==
    /\ DOMAIN entries' = DOMAIN entries
    /\ \A k \in DOMAIN entries :
          IF k # key THEN entries'[k] = entries[k]
          ELSE /\ entries'[k].dk = entries[k].dk
               /\ [entries'[k].session EXCEPT
                      !.participants = entries[k].session.participants,
                      !.creator = IF owner THEN entries[k].session.creator ELSE @]
                    = entries[k].session

\* C34: the insertion of a join (by chat or by the button) and the removal of a
\* leave change nothing in the queue and nothing in the map but the participants
\* of the one session (a leave also its creator, and only when the leaver is
\* the creator).
C34_ParticipantOpsTouchParticipantsOnly ==
    [][\A p \in Procs :
          /\ (hs[p].pc \in {"jn_insert", "ap_insert"} /\ hs'[p].pc # hs[p].pc)
                => /\ UNCHANGED expirations
                   /\ OnlyParticipantsChanged(hs[p].key, FALSE)
          /\ (hs[p].pc = "lv_remove" /\ hs'[p].pc # hs[p].pc)
                => /\ UNCHANGED expirations
                   /\ OnlyParticipantsChanged(hs[p].key, TRUE)
                   /\ (hs[p].key \in DOMAIN entries
                       /\ entries[hs[p].key].session.creator.id # hs[p].user.id)
                         => entries'[hs[p].key].session.creator
                              = entries[hs[p].key].session.creator]_vars

\* The join button has added a user to one of two registered sessions of
\* which the user is not the creator.
C34_Witness ==
    /\ ev.op = "add_participant"
    /\ ev.res = "Ok"
    /\ Cardinality(DOMAIN entries) = 2
    /\ ev.key \in DOMAIN entries
    /\ ev.user \in entries[ev.key].session.participants
    /\ ev.user # entries[ev.key].session.creator

====
